---- MODULE Spec2Model ----
(***************************************************************************)
(* Atomic-Caldera.py: conversion of Atomic Red Team definition files into  *)
(* Caldera Stockpile ability files, with a catalog CSV (test ledger) and a *)
(* variable CSV (variable ledger).                                         *)
(*                                                                         *)
(* A string is a sequence of one-character tokens.  The control and quote  *)
(* characters the code treats specially have their own tokens:             *)
(*   "BS" backslash, "LF" line feed, "CR" carriage return, "BEL" bell,     *)
(*   "SQ" single quote, "DQ" double quote.                                 *)
(* A value of a CSV cell held in memory is either a string or the UUID     *)
(* object uuid.uuid4() returned: [type |-> "str" | "UUID", hex |-> ...].   *)
(*                                                                         *)
(* Line 270 of the script is indented with spaces among lines indented     *)
(* with tabs; it is read as the tab width of 8 places it, in the           *)
(* powershell branch after line 269.  The question checkOutputDir asks     *)
(* before the walk (lines 87-114) is not modelled: the answer is yes.      *)
(***************************************************************************)
EXTENDS Naturals, Sequences, FiniteSets, TLC

\* ------------------------------------------------------------------ bounds
MaxRuns == 2
MaxDirs == 2
MaxEntries == 3

\* ----------------------------------------------------------------- strings
Last(s) == s[Len(s)]

RECURSIVE ReplaceAll(_, _, _)
\* str.replace(old, new) / re.sub of a literal: leftmost, non-overlapping.
ReplaceAll(s, old, new) ==
    IF Len(s) < Len(old) THEN s
    ELSE IF SubSeq(s, 1, Len(old)) = old
         THEN new \o ReplaceAll(SubSeq(s, Len(old) + 1, Len(s)), old, new)
         ELSE <<s[1]>> \o ReplaceAll(Tail(s), old, new)

RECURSIVE LStrip(_, _)
LStrip(s, c) == IF s # <<>> /\ s[1] = c THEN LStrip(Tail(s), c) ELSE s

RECURSIVE RStrip(_, _)
RStrip(s, c) ==
    IF s # <<>> /\ Last(s) = c THEN RStrip(SubSeq(s, 1, Len(s) - 1), c) ELSE s

\* str.strip(c): every leading and trailing c is removed.
Strip(s, c) == RStrip(LStrip(s, c), c)

Contains(s, c) == \E i \in 1..Len(s) : s[i] = c

\* The quote repr() delimits a str with: double quotes when the text holds a
\* single quote and no double quote, single quotes otherwise.
ReprQuote(s) == IF Contains(s, "SQ") /\ ~Contains(s, "DQ") THEN "DQ" ELSE "SQ"

RECURSIVE ReprBody(_, _)
\* repr()'s escapes of the characters of the alphabet; BEL is \x07.
ReprBody(s, q) ==
    IF s = <<>> THEN <<>>
    ELSE (CASE s[1] = "BS"  -> <<"BS", "BS">>
            [] s[1] = "LF"  -> <<"BS", "n">>
            [] s[1] = "CR"  -> <<"BS", "r">>
            [] s[1] = "BEL" -> <<"BS", "x", "0", "7">>
            [] s[1] = q     -> <<"BS", q>>
            [] OTHER        -> <<s[1]>>) \o ReprBody(Tail(s), q)

repr(s) == <<ReprQuote(s)>> \o ReprBody(s, ReprQuote(s)) \o <<ReprQuote(s)>>

\* re.sub(r'x07', r'a', ...): every literal x07 becomes a.
FixBell(s) == ReplaceAll(s, <<"x", "0", "7">>, <<"a">>)

RECURSIVE unicode_escape(_)
\* bytes.decode('unicode_escape') on the escapes of the alphabet; an unknown
\* escape keeps its backslash.
unicode_escape(s) ==
    IF s = <<>> THEN <<>>
    ELSE IF s[1] = "BS" /\ Len(s) >= 2
         THEN (CASE s[2] = "n"  -> <<"LF">>
                 [] s[2] = "r"  -> <<"CR">>
                 [] s[2] = "a"  -> <<"BEL">>
                 [] s[2] = "BS" -> <<"BS">>
                 [] s[2] = "SQ" -> <<"SQ">>
                 [] s[2] = "DQ" -> <<"DQ">>
                 [] OTHER       -> <<"BS", s[2]>>)
              \o unicode_escape(SubSeq(s, 3, Len(s)))
         ELSE <<s[1]>> \o unicode_escape(Tail(s))

\* Lines 234-239: the command as the code extracts it.
ExtractCommand(raw) ==
    LET command == unicode_escape(FixBell(repr(raw)))
    IN  IF command[1] = "SQ" THEN Strip(command, "SQ")
        ELSE IF command[1] = "DQ" THEN Strip(command, "DQ")
        ELSE command

\* Line 249: an argument's default value as the code records it.
ExtractValue(default) == FixBell(repr(default))

\* strip(): white space removed at both ends.
RECURSIVE LStripWS(_)
LStripWS(s) ==
    IF s # <<>> /\ s[1] \in {"SP", "LF", "CR"} THEN LStripWS(Tail(s)) ELSE s

RECURSIVE RStripWS(_)
RStripWS(s) ==
    IF s # <<>> /\ Last(s) \in {"SP", "LF", "CR"}
    THEN RStripWS(SubSeq(s, 1, Len(s) - 1)) ELSE s

\* Line 289: the description of the emitted record.
NormalizeDescription(testDescription) ==
    ReplaceAll(ReplaceAll(RStripWS(LStripWS(testDescription)), <<"LF">>, <<"SP">>),
               <<"SP", "SP">>, <<"SP">>) \o <<"SP", "(Atomic Red Team)">>

\* str.lower() on the executor names of the model.
Lower(name) ==
    CASE name = "BASH"       -> "bash"
      [] name = "PowerShell" -> "powershell"
      [] OTHER               -> name

\* ExecutorKey without the else branch of lines 272-273: an executor that is
\* not a Unix shell is taken for a Windows one.
ExecutorKeyNoElse(executor) ==
    IF Lower(executor) = "sh" \/ Lower(executor) = "bash" THEN "bash" ELSE "psh"

\* Lines 259-273: the key the executor is normalized to; "continue" is the
\* else branch, which goes on with the next test.
ExecutorKey(executor) ==
    IF Lower(executor) = "sh" \/ Lower(executor) = "bash" THEN "bash"
    ELSE IF Lower(executor) = "command_prompt" \/ Lower(executor) = "powershell"
         THEN "psh"
         ELSE "continue"

\* The wrapper template file Cmd-Wrapper.txt: text around one placeholder,
\* the token "#{command}".
CmdWrapper == <<"w", "#{command}", "w">>

Letters == {"x", "y", "w", "d"}
Digits == {"0", "7"}

RECURSIVE ExpandRepl(_)
\* re.sub's processing of its replacement string: \n, \r, \a and \\ are
\* decoded, a backslash before another letter, a digit or the end is an
\* error (the token "re.error" in the result), any other backslash is kept.
ExpandRepl(s) ==
    IF s = <<>> THEN <<>>
    ELSE IF s[1] = "BS"
         THEN IF Len(s) = 1 THEN <<"re.error">>
              ELSE (CASE s[2] = "n"  -> <<"LF">>
                      [] s[2] = "r"  -> <<"CR">>
                      [] s[2] = "a"  -> <<"BEL">>
                      [] s[2] = "BS" -> <<"BS">>
                      [] s[2] \in Letters \cup Digits -> <<"re.error">>
                      [] OTHER       -> <<"BS", s[2]>>)
                   \o ExpandRepl(SubSeq(s, 3, Len(s)))
         ELSE <<s[1]>> \o ExpandRepl(Tail(s))

\* Lines 259-271: the command as normalized for the executor; the powershell
\* branch is lines 269 and 270.
NormalizeCommand(executor, command) ==
    IF Lower(executor) = "sh" \/ Lower(executor) = "bash"
    THEN ReplaceAll(command, <<"BS", "n">>, <<"LF">>)
    ELSE IF Lower(executor) = "command_prompt"
         THEN ReplaceAll(CmdWrapper, <<"#{command}">>, ExpandRepl(command))
         ELSE ReplaceAll(ReplaceAll(command, <<"BS", "n">>, <<"LF">>),
                         <<"LF">>, <<";", "LF">>)

\* ---------------------------------------------------------------- taxonomy
\* The knowledge base: the kill chain phase of each technique it holds.
KnowledgeBase == [T1 |-> "execution"]

\* Lines 50-59.
getMITREPhase(attackID) ==
    IF attackID \in DOMAIN KnowledgeBase THEN KnowledgeBase[attackID] ELSE "None"

\* Lines 206-210.
Tactic(attackID) ==
    IF getMITREPhase(attackID) = "None" THEN "unknown" ELSE getMITREPhase(attackID)

\* ------------------------------------------------------------- ledger files
TestHeader == "attackUUID,attackID,origCommand,command"
VarHeader == "attackUUID,attackID,executor,variable,value"
TestFields == {"attackUUID", "attackID", "origCommand", "command"}
VarFields == {"attackUUID", "attackID", "executor", "variable", "value"}

\* The columns a header line names.
FieldsOf(header) == IF header = VarHeader THEN VarFields ELSE TestFields

\* A ledger file on disk: its first line, its rows (each a record of
\* strings keyed by the header's columns) and whether the lines after the
\* first can be read as CSV text ("corrupt": the reader raises on them).
NoFile == [exists |-> FALSE, header |-> "", rows |-> <<>>, body |-> "ok"]
File(header, rows, body) ==
    [exists |-> TRUE, header |-> header, rows |-> rows, body |-> body]

\* A cell in memory: a str, or the UUID object uuid4() made.
Str(hex) == [type |-> "str", hex |-> hex]
UUID(hex) == [type |-> "UUID", hex |-> hex]
\* str(value), as csv.DictWriter writes a cell.
ToStr(value) == value.hex

\* Universal newlines of open(path, 'r'): \r\n and \r are read as \n.
UniversalNewlines(s) ==
    ReplaceAll(ReplaceAll(s, <<"CR", "LF">>, <<"LF">>), <<"CR">>, <<"LF">>)

\* One row as csv.DictReader returns it from a file opened in text mode.
ReadRow(row) ==
    [k \in DOMAIN row |->
        IF k = "attackUUID" THEN Str(row[k])
        ELSE IF k \in {"origCommand", "command", "value"}
             THEN UniversalNewlines(row[k])
             ELSE row[k]]

\* Lines 155-179: the rows of a ledger file, or the empty list when the file
\* is missing or the reader raises.
LoadCSV(file) ==
    IF file.exists /\ file.body = "ok"
    THEN [i \in 1..Len(file.rows) |-> ReadRow(file.rows[i])]
    ELSE <<>>

\* One row as csv.DictWriter writes it.
WriteRow(line) ==
    [k \in DOMAIN line |-> IF k = "attackUUID" THEN ToStr(line[k]) ELSE line[k]]

\* DictWriter.writerow raises ValueError on a row with a key that is no
\* field name.
Writable(fields, line) == DOMAIN line \subseteq fields

RECURSIVE WritablePrefix(_, _)
\* The number of leading rows written before the first one that raises.
WritablePrefix(fields, lines) ==
    IF lines = <<>> \/ ~Writable(fields, lines[1]) THEN 0
    ELSE 1 + WritablePrefix(fields, Tail(lines))

\* Lines 345-351 and 354-360: the file after the rewrite; the rows before one
\* that raises are in it.
WriteCSV(header, lines) ==
    LET n == WritablePrefix(FieldsOf(header), lines)
    IN  File(header, [i \in 1..n |-> WriteRow(lines[i])], "ok")

WriteRaises(header, lines) ==
    WritablePrefix(FieldsOf(header), lines) < Len(lines)

\* Lines 61-77: the file is missing, or its first line is the catalog header.
checkCSVPath(file) ==
    IF file.exists THEN file.header = TestHeader ELSE TRUE

\* Line 229: the drawn identifier is that of a row of the catalog.
UUIDCollides(csvFile, attackUUID) ==
    \E i \in 1..Len(csvFile) : csvFile[i].attackUUID = Str(attackUUID)

\* IsCatalogued looking the command up in the column of normalized commands.
IsCataloguedByCommand(csvFile, attackID, origCommand) ==
    \E i \in 1..Len(csvFile) :
        csvFile[i].attackID = attackID /\ csvFile[i].command = origCommand

\* Line 282: the test is catalogued already.
IsCatalogued(csvFile, attackID, origCommand) ==
    \E i \in 1..Len(csvFile) :
        csvFile[i].attackID = attackID /\ csvFile[i].origCommand = origCommand

\* VarRowsToAppend with the loop of lines 337-340 outside the if of line 282.
VarRowsToAppendAlways(catalogued, varList) == varList

\* Lines 282 and 336-340: the variable rows appended for a test.
VarRowsToAppend(catalogued, varList) ==
    IF catalogued THEN <<>> ELSE varList

\* ------------------------------------------------------------------- inputs
\* The identifiers uuid.uuid4() may draw.
UUIDs == {"u1", "u2"}

Header(ext, parses, hasDisplay, display, hasAttack, attack, hasTests) ==
    [ext |-> ext, parses |-> parses,
     has_display_name |-> hasDisplay, display_name |-> display,
     has_attack_technique |-> hasAttack, attack_technique |-> attack,
     has_atomic_tests |-> hasTests]

\* The definition files of the input tree, by what the code reads of each
\* outside its test entries.
Headers ==
    << Header(".yaml", TRUE, TRUE, "D1", TRUE, "T1", TRUE),
       Header(".yaml", TRUE, FALSE, "", TRUE, "T1", TRUE),
       Header(".yaml", TRUE, TRUE, "D2", TRUE, "T2", TRUE),
       Header(".yaml", TRUE, TRUE, "D2", FALSE, "", TRUE),
       Header(".yaml", TRUE, TRUE, "D1", TRUE, "T1", FALSE),
       Header(".yaml", FALSE, FALSE, "", FALSE, "", FALSE),
       Header(".md", TRUE, FALSE, "", FALSE, "", FALSE) >>

Argument(variable, hasDefault, default) ==
    [variable |-> variable, has_default |-> hasDefault, default |-> default]

Atomic(hasName, hasDescription, description, hasCommand, executor, command, args) ==
    [has_name |-> hasName, name |-> "N1",
     has_description |-> hasDescription, description |-> description,
     has_command |-> hasCommand, executor |-> executor, command |-> command,
     input_arguments |-> args]

Arg1 == Argument("arg1", TRUE, <<"d">>)
ArgNoDefault == Argument("arg1", FALSE, <<>>)

\* The test entries of the definition files.
Atomics ==
    << Atomic(TRUE, TRUE, <<"d">>, TRUE, "sh", <<"x">>, <<>>),
       Atomic(TRUE, TRUE, <<"SP", "d", "LF", "d">>, TRUE, "powershell", <<"x">>, <<Arg1>>),
       Atomic(TRUE, TRUE, <<"d">>, TRUE, "BASH", <<"x", "CR", "y">>, <<Arg1>>),
       Atomic(TRUE, TRUE, <<"d">>, FALSE, "manual", <<>>, <<Arg1>>),
       Atomic(TRUE, TRUE, <<"d">>, TRUE, "manual", <<"x">>, <<Arg1>>),
       Atomic(TRUE, TRUE, <<"d">>, TRUE, "command_prompt", <<"x", "BS", "n", "y">>, <<>>),
       Atomic(TRUE, TRUE, <<"d">>, TRUE, "command_prompt", <<"x">>, <<ArgNoDefault>>),
       Atomic(FALSE, TRUE, <<"d">>, TRUE, "bash", <<"x">>, <<>>),
       Atomic(TRUE, FALSE, <<>>, TRUE, "manual", <<"x">>, <<>>) >>

\* The rows a ledger file holds before the first run.
OldTestRow ==
    [attackUUID |-> "u1", attackID |-> "T1",
     origCommand |-> <<"x">>, command |-> <<"x">>]
OldVarRow ==
    [attackUUID |-> "u1", attackID |-> "T1", executor |-> "powershell",
     variable |-> "arg1", value |-> <<"SQ", "d", "SQ">>]

InitialTestLedgers ==
    { NoFile,
      File(TestHeader, <<OldTestRow>>, "ok"),
      File(TestHeader, <<OldTestRow>>, "corrupt"),
      File("", <<>>, "ok") }

InitialVarLedgers ==
    { NoFile,
      File(VarHeader, <<OldVarRow>>, "ok"),
      File(TestHeader, <<OldTestRow>>, "ok") }

\* -------------------------------------------------------------------- state
VARIABLES
    run,              \* the number of the invocation of the script
    env,              \* what preflight finds of the input and CTI paths
    pc,               \* where the invocation is
    why,              \* what ended it, when it was aborted
    csvDisk, varDisk, \* the two ledger files
    outFiles,         \* the ability files under <fileoutdir>/abilities
    csvPathCheck, varCsvPathCheck,
    csvFile, varCsvFile,
    yamlData,         \* the index in Headers of the file being processed
    displayName,      \* "unbound" until a file sets it
    log, pos,         \* the input tree as the walk has shown it, and the walk's place in it
    start,            \* history: the files when the invocation started
    loaded,           \* history: the number of rows each ledger was loaded with
    csvSrc, varSrc    \* history: for each appended row, the place in log of its test entry

vars == << run, env, pc, why, csvDisk, varDisk, outFiles, csvPathCheck,
           varCsvPathCheck, csvFile, varCsvFile, yamlData, displayName,
           log, pos, start, loaded, csvSrc, varSrc >>

Event(kind, ix) == [kind |-> kind, ix |-> ix]

Count(kind) == Cardinality({i \in 1..Len(log) : log[i].kind = kind})

\* The walk meets event e next: the tree is as an earlier invocation saw it,
\* and past what was seen any tree within the bounds.
Meets(e) ==
    IF pos <= Len(log) THEN log[pos] = e
    ELSE CASE e.kind \in {"file", "atomic"} ->
                    Count("file") + Count("atomic") < MaxEntries
           [] e.kind = "dir" -> Count("dir") < MaxDirs - 1
           [] OTHER          -> TRUE

Advance(e) ==
    /\ log' = IF pos <= Len(log) THEN log ELSE Append(log, e)
    /\ pos' = pos + 1

Init ==
    /\ run = 1
    /\ env \in [input : BOOLEAN, cti : BOOLEAN]
    /\ pc = "preflight"
    /\ why = ""
    /\ csvDisk \in InitialTestLedgers
    /\ varDisk \in InitialVarLedgers
    /\ outFiles = {}
    /\ csvPathCheck = FALSE
    /\ varCsvPathCheck = FALSE
    /\ csvFile = <<>>
    /\ varCsvFile = <<>>
    /\ yamlData = 0
    /\ displayName = "unbound"
    /\ log = <<>>
    /\ pos = 1
    /\ start = [csv |-> csvDisk, var |-> varDisk, out |-> outFiles, ended |-> "never"]
    /\ loaded = [csv |-> 0, var |-> 0]
    /\ csvSrc = <<>>
    /\ varSrc = <<>>

\* Lines 405-428: the checks before main is called.
Preflight ==
    /\ pc = "preflight"
    /\ csvPathCheck' = checkCSVPath(csvDisk)
    /\ varCsvPathCheck' = checkCSVPath(varDisk)
    /\ pc' = IF env.input /\ csvPathCheck' /\ varCsvPathCheck' /\ env.cti
             THEN "load" ELSE "rejected"
    /\ UNCHANGED << run, env, why, csvDisk, varDisk, outFiles, csvFile,
                    varCsvFile, yamlData, displayName, log, pos, start,
                    loaded, csvSrc, varSrc >>

\* Lines 150-184: both ledgers are loaded and the walk enters the input
\* directory.
LoadLedgers ==
    /\ pc = "load"
    /\ csvFile' = LoadCSV(csvDisk)
    /\ varCsvFile' = LoadCSV(varDisk)
    /\ loaded' = [csv |-> Len(csvFile'), var |-> Len(varCsvFile')]
    /\ pc' = "dir"
    /\ UNCHANGED << run, env, why, csvDisk, varDisk, outFiles, csvPathCheck,
                    varCsvPathCheck, yamlData, displayName, log, pos, start,
                    csvSrc, varSrc >>

Abort(reason) ==
    /\ pc' = "aborted"
    /\ why' = reason

\* Lines 185-216: the next file of the directory, up to its list of tests.
OpenFile(h) ==
    /\ pc = "dir"
    /\ Meets(Event("file", h))
    /\ Advance(Event("file", h))
    /\ LET f == Headers[h]
       IN  IF f.ext # ".yaml"
           THEN /\ UNCHANGED << pc, why, yamlData, displayName >>
           ELSE IF ~f.parses
           THEN /\ Abort("parse")
                /\ UNCHANGED << yamlData, displayName >>
           ELSE /\ yamlData' = h
                /\ displayName' = IF f.has_display_name THEN f.display_name
                                  ELSE displayName
                /\ pc' = IF f.has_attack_technique /\ f.has_atomic_tests
                         THEN "atomic" ELSE "dir"
                /\ UNCHANGED why
    /\ UNCHANGED << run, env, csvDisk, varDisk, outFiles, csvPathCheck,
                    varCsvPathCheck, csvFile, varCsvFile, start, loaded,
                    csvSrc, varSrc >>

\* Lines 241-253: the variable list of a test, each entry tagged with the
\* drawn identifier, the technique and the executor name read at line 232.
VarList(atomic, attackUUID, attackID) ==
    [i \in 1..Len(atomic.input_arguments) |->
        [attackUUID |-> UUID(attackUUID), attackID |-> attackID,
         executor |-> atomic.executor,
         variable |-> atomic.input_arguments[i].variable,
         value |-> ExtractValue(atomic.input_arguments[i].default)]]

\* Lines 287-292 and 323: the ability file, at <tactic>/<uuid>.yml.
NewYAML(attackUUID, name, testDescription, tactic, attackID, attackName, executor, command) ==
    [path |-> <<tactic, attackUUID>>, written |-> "whole",
     id |-> attackUUID, name |-> name,
     description |-> NormalizeDescription(testDescription),
     tactic |-> tactic, attack_id |-> attackID, technique_name |-> attackName,
     executor |-> executor, command |-> command]

\* open(path, 'w') of a file: the file of that path is replaced.
WriteFile(files, file) == {f \in files : f.path # file.path} \cup {file}

\* Line 333: the row of the catalog.
NewLine(attackUUID, attackID, origCommand, command) ==
    [attackUUID |-> UUID(attackUUID), attackID |-> attackID,
     origCommand |-> origCommand, command |-> command]

\* What the file system does to the writes of lines 299-330.
IOOutcomes == {"ok", "makedirs fails", "write fails"}

\* Lines 218-342: one test entry of the file.  attackUUID is the identifier
\* the loop of lines 227-230 ends with, io what the file system does.
ProcessAtomic(a, attackUUID, io) ==
    /\ pc = "atomic"
    /\ Meets(Event("atomic", a))
    /\ Advance(Event("atomic", a))
    /\ LET atomic == Atomics[a]
           attackID == Headers[yamlData].attack_technique
           tactic == Tactic(attackID)
           executor == IF atomic.has_command THEN atomic.executor ELSE ""
           origCommand == IF atomic.has_command
                          THEN ExtractCommand(atomic.command) ELSE <<>>
           command == NormalizeCommand(executor, origCommand)
           varList == VarList(atomic, attackUUID, attackID)
           catalogued == IsCatalogued(csvFile, attackID, origCommand)
           newYAML == NewYAML(attackUUID, displayName, atomic.description, tactic,
                              attackID, atomic.name, ExecutorKey(executor), command)
           same == UNCHANGED << outFiles, csvFile, varCsvFile, csvSrc, varSrc >>
       IN  /\ atomic.has_command => ~UUIDCollides(csvFile, attackUUID)
           /\ IF ~atomic.has_name \/ ~atomic.has_description
              THEN Abort("KeyError") /\ same
              ELSE IF /\ atomic.has_command
                      /\ \E i \in 1..Len(atomic.input_arguments) :
                            ~atomic.input_arguments[i].has_default
              THEN Abort("encode") /\ same
              ELSE IF ExecutorKey(executor) = "continue"
              THEN UNCHANGED << pc, why >> /\ same
              ELSE IF Contains(command, "re.error")
              THEN Abort("re.error") /\ same
              ELSE IF catalogued
              THEN /\ UNCHANGED << pc, why, outFiles, csvFile, csvSrc >>
                   /\ varCsvFile' = varCsvFile \o VarRowsToAppend(catalogued, varList)
                   /\ varSrc' = varSrc \o [i \in 1..Len(VarRowsToAppend(catalogued, varList)) |-> pos]
              ELSE IF displayName = "unbound"
              THEN Abort("UnboundLocalError") /\ same
              ELSE IF io = "makedirs fails"
              THEN Abort(io) /\ same
              ELSE IF io = "write fails"
              THEN /\ Abort(io)
                   /\ outFiles' = WriteFile(outFiles, [path |-> newYAML.path, written |-> "partly"])
                   /\ UNCHANGED << csvFile, varCsvFile, csvSrc, varSrc >>
              ELSE /\ UNCHANGED << pc, why >>
                   /\ outFiles' = WriteFile(outFiles, newYAML)
                   /\ csvFile' = Append(csvFile,
                                        NewLine(attackUUID, attackID, origCommand, command))
                   /\ csvSrc' = Append(csvSrc, pos)
                   /\ varCsvFile' = varCsvFile \o VarRowsToAppend(catalogued, varList)
                   /\ varSrc' = varSrc \o [i \in 1..Len(VarRowsToAppend(catalogued, varList)) |-> pos]
    /\ UNCHANGED << run, env, csvDisk, varDisk, csvPathCheck, varCsvPathCheck,
                    yamlData, displayName, start, loaded >>

\* Line 218: the file has no further test entry.
EndFile ==
    /\ pc = "atomic"
    /\ Meets(Event("endfile", 0))
    /\ Advance(Event("endfile", 0))
    /\ pc' = "dir"
    /\ UNCHANGED << run, env, why, csvDisk, varDisk, outFiles, csvPathCheck,
                    varCsvPathCheck, csvFile, varCsvFile, yamlData, displayName,
                    start, loaded, csvSrc, varSrc >>

\* Lines 344-360: the directory has no further file, and both ledger files
\* are rewritten, the catalog first.
FlushDir ==
    /\ pc = "dir"
    /\ Meets(Event("flush", 0))
    /\ Advance(Event("flush", 0))
    /\ csvDisk' = WriteCSV(TestHeader, csvFile)
    /\ IF WriteRaises(TestHeader, csvFile)
       THEN Abort("ValueError") /\ UNCHANGED varDisk
       ELSE /\ varDisk' = WriteCSV(VarHeader, varCsvFile)
            /\ IF WriteRaises(VarHeader, varCsvFile)
               THEN Abort("ValueError")
               ELSE pc' = "between" /\ UNCHANGED why
    /\ UNCHANGED << run, env, outFiles, csvPathCheck, varCsvPathCheck, csvFile,
                    varCsvFile, yamlData, displayName, start, loaded, csvSrc,
                    varSrc >>

\* Line 184: os.walk yields a further directory.
EnterDir ==
    /\ pc = "between"
    /\ Meets(Event("dir", 0))
    /\ Advance(Event("dir", 0))
    /\ pc' = "dir"
    /\ UNCHANGED << run, env, why, csvDisk, varDisk, outFiles, csvPathCheck,
                    varCsvPathCheck, csvFile, varCsvFile, yamlData, displayName,
                    start, loaded, csvSrc, varSrc >>

\* Line 184: os.walk is exhausted and main returns.
Finish ==
    /\ pc = "between"
    /\ Meets(Event("end", 0))
    /\ Advance(Event("end", 0))
    /\ pc' = "done"
    /\ UNCHANGED << run, env, why, csvDisk, varDisk, outFiles, csvPathCheck,
                    varCsvPathCheck, csvFile, varCsvFile, yamlData, displayName,
                    start, loaded, csvSrc, varSrc >>

Ended == pc \in {"done", "aborted", "rejected"}

\* The script is invoked again, on the same input tree and with the ledger
\* and ability files the invocations before it left.
NewRun ==
    /\ Ended
    /\ run < MaxRuns
    /\ run' = run + 1
    /\ pc' = "preflight"
    /\ why' = ""
    /\ csvPathCheck' = FALSE
    /\ varCsvPathCheck' = FALSE
    /\ csvFile' = <<>>
    /\ varCsvFile' = <<>>
    /\ yamlData' = 0
    /\ displayName' = "unbound"
    /\ pos' = 1
    /\ start' = [csv |-> csvDisk, var |-> varDisk, out |-> outFiles, ended |-> pc]
    /\ loaded' = [csv |-> 0, var |-> 0]
    /\ csvSrc' = <<>>
    /\ varSrc' = <<>>
    /\ UNCHANGED << env, csvDisk, varDisk, outFiles, log >>

Walk ==
    \/ Preflight
    \/ LoadLedgers
    \/ \E h \in 1..Len(Headers) : OpenFile(h)
    \/ \E a \in 1..Len(Atomics), attackUUID \in UUIDs, io \in IOOutcomes :
          ProcessAtomic(a, attackUUID, io)
    \/ EndFile
    \/ FlushDir
    \/ EnterDir
    \/ Finish

\* One invocation of the script.
Next == Walk

Spec == Init /\ [][Next]_vars

\* Invocations one after the other.
NextRerun == Walk \/ NewRun

SpecRerun == Init /\ [][NextRerun]_vars

\* =================================================================== claims
Recognized == {"sh", "bash", "command_prompt", "powershell"}

\* The rows appended to the catalog and to the variable list since the load.
NewTests == [i \in 1..(Len(csvFile) - loaded.csv) |-> csvFile[loaded.csv + i]]
NewVars == [j \in 1..(Len(varCsvFile) - loaded.var) |-> varCsvFile[loaded.var + j]]

PairsDistinct(rows) ==
    \A i, j \in 1..Len(rows) :
        i < j => ~(rows[i].attackID = rows[j].attackID
                   /\ rows[i].origCommand = rows[j].origCommand)

PairPresent(rows, attackID, origCommand) ==
    \E i \in 1..Len(rows) :
        rows[i].attackID = attackID /\ rows[i].origCommand = origCommand

IdentifiersDistinct(rows) ==
    \A i, j \in 1..Len(rows) : i < j => rows[i].attackUUID.hex # rows[j].attackUUID.hex

IsPrefix(s, t) == Len(s) <= Len(t) /\ \A i \in 1..Len(s) : s[i] = t[i]

\* The step processes a test entry; ThatAtomic is the entry.
AtomicStep == pc = "atomic" /\ pos' = pos + 1 /\ log'[pos].kind = "atomic"
ThatAtomic == Atomics[log'[pos].ix]

\* The test entry the walk processed last, when it has just processed one.
JustProcessed == pos > 1 /\ log[pos - 1].kind = "atomic"
LastAtomic == Atomics[log[pos - 1].ix]
CurrentAttackID == Headers[yamlData].attack_technique

\* The entry has all the code reads unconditionally: a name, a description
\* and a default for every argument of an entry with a command.
Complete(atomic) ==
    /\ atomic.has_name
    /\ atomic.has_description
    /\ atomic.has_command =>
          \A i \in 1..Len(atomic.input_arguments) : atomic.input_arguments[i].has_default

NothingEmitted ==
    /\ outFiles' = outFiles
    /\ csvFile' = csvFile
    /\ varCsvFile' = varCsvFile

\* C1: when the loaded catalog has no two rows of the same (attackID,
\* origCommand), the catalog in memory never has two, and the step of a test
\* entry whose pair is in the catalog already writes no ability file and
\* appends no row.
C1_UniquePairs ==
    /\ [](PairsDistinct(SubSeq(csvFile, 1, loaded.csv)) => PairsDistinct(csvFile))
    /\ [][(/\ AtomicStep
           /\ ThatAtomic.has_command
           /\ PairPresent(csvFile, CurrentAttackID, ExtractCommand(ThatAtomic.command)))
          => NothingEmitted]_vars

\* A repeated test entry was skipped after a row was appended in this run.
C1_Witness ==
    /\ pc = "atomic"
    /\ JustProcessed
    /\ Complete(LastAtomic) /\ LastAtomic.has_command
    /\ Lower(LastAtomic.executor) \in Recognized
    /\ Len(NewTests) > 0
    /\ PairPresent(NewTests, CurrentAttackID, ExtractCommand(LastAtomic.command))
    /\ \A i \in 1..Len(csvSrc) : csvSrc[i] # pos - 1

\* C2: when the loaded catalog has no two rows of the same identifier, the
\* identifiers of the rows of the catalog in memory, loaded and appended, are
\* pairwise distinct at all times.
C2_IdentifiersDistinct ==
    IdentifiersDistinct(SubSeq(csvFile, 1, loaded.csv)) => IdentifiersDistinct(csvFile)

\* C3: an invocation that follows a completed one on the same input tree and
\* the ledger files it left runs the pipeline to its end, and leaves no new
\* ability file and no new row in either ledger file.
C3_Idempotent ==
    (run > 1 /\ start.ended = "done" /\ pc \in {"done", "rejected"})
    => /\ pc = "done"
       /\ outFiles = start.out
       /\ csvDisk.rows = start.csv.rows
       /\ varDisk.rows = start.var.rows

\* C4: when the invocation is aborted by an unparseable definition file, an
\* argument without an encodable value, a failed directory creation or a
\* failed write of an ability file, both ledger files are as they were when
\* it started.
C4_AbortKeepsLedgers ==
    (pc = "aborted" /\ why \in {"parse", "encode", "makedirs fails", "write fails"})
    => (csvDisk = start.csv /\ varDisk = start.var)

\* C5: when an invocation that passed preflight completes, the rows each
\* ledger file held before it are the first rows of the file, unchanged and
\* in their order.
C5_RowsKept ==
    pc = "done" => /\ IsPrefix(start.csv.rows, csvDisk.rows)
                   /\ IsPrefix(start.var.rows, varDisk.rows)

C7_VarRowsFollowTest ==
    /\ [](\A j \in 1..Len(NewVars) :
            \E i \in 1..Len(NewTests) :
                /\ csvSrc[i] = varSrc[j]
                /\ NewTests[i].attackUUID = NewVars[j].attackUUID
                /\ NewTests[i].attackID = NewVars[j].attackID)
    /\ [][(/\ AtomicStep
           /\ \/ ~ThatAtomic.has_command
              \/ Lower(ThatAtomic.executor) \notin Recognized
              \/ PairPresent(csvFile, CurrentAttackID, ExtractCommand(ThatAtomic.command)))
          => varCsvFile' = varCsvFile]_vars

\* A test entry with an argument was skipped as catalogued already.
C7_Witness ==
    /\ pc = "atomic"
    /\ JustProcessed
    /\ Complete(LastAtomic) /\ LastAtomic.has_command
    /\ Len(LastAtomic.input_arguments) > 0
    /\ Lower(LastAtomic.executor) \in Recognized
    /\ PairPresent(csvFile, CurrentAttackID, ExtractCommand(LastAtomic.command))
    /\ \A i \in 1..Len(csvSrc) : csvSrc[i] # pos - 1
    /\ NewVars = <<>>

\* C8: preflight accepts a ledger path exactly when the file is missing or
\* its first line is the header of the ledger's own schema.
C8_PreflightBySchema ==
    pc # "preflight"
    => /\ csvPathCheck = (~start.csv.exists \/ start.csv.header = TestHeader)
       /\ varCsvPathCheck = (~start.var.exists \/ start.var.header = VarHeader)

\* C9: no invocation is aborted by a missing display name, name or
\* description, and the ability file written for a test of a definition file
\* without a display name has a blank name.
C9_BlankForOmitted ==
    /\ [](pc = "aborted" => why \notin {"KeyError", "UnboundLocalError"})
    /\ [][(AtomicStep /\ ~Headers[yamlData].has_display_name)
          => \A f \in outFiles' \ outFiles : f.written = "whole" => f.name = ""]_vars

\* C10: every variable row appended in the invocation has in its executor
\* field the key its test's executor is normalized to, bash or psh.
C10_VarExecutorNormalized ==
    \A j \in 1..Len(NewVars) :
        NewVars[j].executor = ExecutorKey(Atomics[log[varSrc[j]].ix].executor)

====
